---- MODULE Spec2Model ----
(***************************************************************************)
(* LR(0) table builder and shift-reduce engine of src/parsing_table.rs.    *)
(*                                                                         *)
(* canonical_automaton_to_lr0_parser turns a canonical automaton (a list   *)
(* of item lists and a transition map) into an action table, a goto table  *)
(* and a rule table; LR0Parser runs the stack machine over them, one step  *)
(* at a time (step_once) or in a driver loop                               *)
(* (export_parsing_as_latex_src).                                          *)
(*                                                                         *)
(* State numbers, rule numbers and the cursor are 0-based as in the        *)
(* source; TLA+ sequences are 1-based, so the element the source calls     *)
(* v[i] is v[i + 1] here.                                                  *)
(***************************************************************************)
EXTENDS Integers, Sequences, FiniteSets, TLC

(***************************************************************************)
(* Bounds of the model.                                                    *)
(***************************************************************************)
\* longest token sequence handed to input()
MaxLen == 5
\* deepest stack on which input() is still followed (input() keeps the old
\* stack, so the stack could grow without limit over repeated runs)
MaxStale == 2

(***************************************************************************)
(* Symbols and items (crate::bnf::Symbol, crate::item_set::LR0Item).       *)
(***************************************************************************)
Term(t) == <<"Term", t>>
NonTerm(n) == <<"NonTerm", n>>
LR0Item(l, r, d) == [left |-> l, right |-> r, dot_pos |-> d]

\* the arguments of the builder other than the automaton
extended_start_symbol == "S'"
start_symbol == "S"
eof_symbol == "$"
terms == <<"a", "b", "$">>

Terminals == {terms[i] : i \in 1..Len(terms)}
NonTerminals == {start_symbol, extended_start_symbol}

(***************************************************************************)
(* The orders of NT, T, Symbol and LR0Item (Ord), which BTreeMap and       *)
(* BTreeSet iterate in.  A Vec compares lexicographically.                 *)
(***************************************************************************)
NTRank(n) == IF n = start_symbol THEN 0 ELSE 1
TRank(t) == CHOOSE i \in 1..Len(terms) : terms[i] = t
SymRank(s) == IF s[1] = "NonTerm" THEN NTRank(s[2]) ELSE Cardinality(NonTerminals) + TRank(s[2])

CmpInt(x, y) == IF x < y THEN 0 - 1 ELSE IF x > y THEN 1 ELSE 0

RECURSIVE CmpSymbols(_, _)
CmpSymbols(x, y) ==
    IF x = <<>> THEN (IF y = <<>> THEN 0 ELSE 0 - 1)
    ELSE IF y = <<>> THEN 1
    ELSE LET c == CmpInt(SymRank(Head(x)), SymRank(Head(y)))
         IN  IF c # 0 THEN c ELSE CmpSymbols(Tail(x), Tail(y))

CmpItem(i, j) ==
    LET cl == CmpInt(NTRank(i.left), NTRank(j.left))
        cr == CmpSymbols(i.right, j.right)
    IN  IF cl # 0 THEN cl
        ELSE IF cr # 0 THEN cr
        ELSE CmpInt(i.dot_pos, j.dot_pos)

RECURSIVE CmpState(_, _)
CmpState(x, y) ==
    IF x = <<>> THEN (IF y = <<>> THEN 0 ELSE 0 - 1)
    ELSE IF y = <<>> THEN 1
    ELSE LET c == CmpItem(Head(x), Head(y))
         IN  IF c # 0 THEN c ELSE CmpState(Tail(x), Tail(y))

\* the elements of a set of states in ascending order (BTreeSet / BTreeMap iteration)
RECURSIVE SortedStates(_)
SortedStates(S) ==
    IF S = {} THEN <<>>
    ELSE LET m == CHOOSE x \in S : \A y \in S : CmpState(x, y) <= 0
         IN  <<m>> \o SortedStates(S \ {m})

Range(f) == {f[i] : i \in DOMAIN f}

Contains(v, x) == \E i \in DOMAIN v : v[i] = x

(***************************************************************************)
(* The automata handed to the builder.  An automaton is a list of states   *)
(* (each a list of items) and a transition map keyed by (state, symbol).   *)
(***************************************************************************)
MkAutomaton(sts, triples) ==
    [states |-> sts,
     trans  |-> [k \in {<<t[1], t[2]>> : t \in triples} |->
                    (CHOOSE t \in triples : <<t[1], t[2]>> = k)[3]]]

\* S' -> S $
StartItem(d) == LR0Item(extended_start_symbol, <<NonTerm(start_symbol), Term(eof_symbol)>>, d)

\* grammar S' -> S $, S -> a S b | epsilon
ASb(d) == LR0Item(start_symbol, <<Term("a"), NonTerm(start_symbol), Term("b")>>, d)
Eps == LR0Item(start_symbol, <<>>, 0)

\* its canonical automaton, given the item lists of the two states that hold
\* more than one item
EpsAutomaton(I0, I2) ==
    LET I1 == <<StartItem(1)>>
        I3 == <<StartItem(2)>>
        I4 == <<ASb(2)>>
        I5 == <<ASb(3)>>
    IN  MkAutomaton(<<I0, I1, I2, I3, I4, I5>>,
            { <<I0, NonTerm(start_symbol), I1>>, <<I0, Term("a"), I2>>,
              <<I1, Term(eof_symbol), I3>>,
              <<I2, NonTerm(start_symbol), I4>>, <<I2, Term("a"), I2>>,
              <<I4, Term("b"), I5>> })

\* item lists in the order of Ord
EpsSorted == EpsAutomaton(<<Eps, ASb(0), StartItem(0)>>, <<Eps, ASb(0), ASb(1)>>)
\* item lists in closure order: kernel item first, then the items it adds
EpsKernelFirst == EpsAutomaton(<<StartItem(0), ASb(0), Eps>>, <<ASb(1), ASb(0), Eps>>)

\* grammar S' -> S $, S -> a S | b  (LR(0), no conflicts)
AS(d) == LR0Item(start_symbol, <<Term("a"), NonTerm(start_symbol)>>, d)
B(d) == LR0Item(start_symbol, <<Term("b")>>, d)

J0 == <<B(0), AS(0), StartItem(0)>>
J1 == <<StartItem(1)>>
J2 == <<B(0), AS(0), AS(1)>>
J3 == <<B(1)>>
J4 == <<AS(2)>>
J5 == <<StartItem(2)>>

Lr0Transitions ==
    { <<J0, NonTerm(start_symbol), J1>>, <<J0, Term("a"), J2>>, <<J0, Term("b"), J3>>,
      <<J1, Term(eof_symbol), J5>>,
      <<J2, NonTerm(start_symbol), J4>>, <<J2, Term("a"), J2>>, <<J2, Term("b"), J3>> }

Lr0Plain == MkAutomaton(<<J0, J1, J2, J3, J4, J5>>, Lr0Transitions)
\* the same automaton with its states listed in another order
Lr0Reversed == MkAutomaton(<<J5, J4, J3, J2, J1, J0>>, Lr0Transitions)
\* the same automaton with transitions to the empty item list
Lr0Dead == MkAutomaton(<<J0, J1, J2, J3, J4, J5>>,
               Lr0Transitions \cup { <<J0, Term(eof_symbol), <<>> >>, <<J3, Term("b"), <<>> >> })
\* the same automaton with one item list occurring twice in the state list
Lr0Twice == MkAutomaton(<<J0, J1, J2, J3, J4, J5, J3>>, Lr0Transitions)

\* the same states with the transition on S out of J2 left out of the map
Lr0NoGoto == MkAutomaton(<<J0, J1, J2, J3, J4, J5>>,
                 Lr0Transitions \ { <<J2, NonTerm(start_symbol), J4>> })

Automata ==
    {EpsSorted, EpsKernelFirst, Lr0Plain, Lr0Reversed, Lr0Dead, Lr0Twice, Lr0NoGoto}

(***************************************************************************)
(* canonical_automaton_to_lr0_parser                                       *)
(***************************************************************************)
\* ActionKind
Accept == <<"Accept">>
Reduce(r) == <<"Reduce", r>>
Shift(n) == <<"Shift", n>>
Error == <<"Error">>

\* state_number_table keeping the first index of two equal states
state_number_first(aut) ==
    [s \in Range(aut.states) |->
        (CHOOSE i \in DOMAIN aut.states :
            /\ aut.states[i] = s
            /\ \A j \in DOMAIN aut.states : aut.states[j] = s => i <= j) - 1]

\* collect() into a BTreeMap: of two equal states the later index stays
state_number_table(aut) ==
    [s \in Range(aut.states) |->
        (CHOOSE i \in DOMAIN aut.states :
            /\ aut.states[i] = s
            /\ \A j \in DOMAIN aut.states : aut.states[j] = s => j <= i) - 1]

start_rule == StartItem(0)
accept_rule == StartItem(2)

\* find() over the map in key order; unwrap() needs one to exist
start_state_number(aut) ==
    LET table  == state_number_table(aut)
        sorted == SortedStates(DOMAIN table)
        first  == CHOOSE i \in DOMAIN sorted :
                     /\ Contains(sorted[i], start_rule)
                     /\ \A j \in DOMAIN sorted : Contains(sorted[j], start_rule) => i <= j
    IN  table[sorted[first]]

\* the filter closure of reduce_states
is_reduce_state(state) ==
    LET reduce_state == {lr0item \in Range(state) :
                            lr0item.dot_pos = Len(lr0item.right) /\ lr0item # accept_rule}
    IN  IF Cardinality(reduce_state) > 1 THEN TRUE
        ELSE IF Cardinality(reduce_state) = 1 /\ Len(state) > 1 THEN TRUE
        ELSE Cardinality(reduce_state) = 1

\* BTreeSet of the states kept by the filter, in iteration order
reduce_states(aut) == SortedStates({state \in Range(aut.states) : is_reduce_state(state)})

\* the item pushed for a reduce state
rule_item(reduce_state) == reduce_state[1]

new_rule_table(aut) ==
    LET table == state_number_table(aut)
        kept  == SelectSeq(reduce_states(aut), LAMBDA s : s \in DOMAIN table)
    IN  [r \in 1..Len(kept) |-> rule_item(kept[r])]

\* reduce_entries with the inner loop over terms cut to the first terminal
reduce_entries_first_term(aut) ==
    LET table == state_number_table(aut)
        rs    == reduce_states(aut)
        nums  == {r \in DOMAIN rs : rs[r] \in DOMAIN table}
    IN  [k \in {<<table[rs[r]], terms[1]>> : r \in nums} |->
            Reduce((CHOOSE r \in nums : table[rs[r]] = k[1]) - 1)]

\* reduce_entries with rule numbers counted from one
reduce_entries_one_based(aut) ==
    LET table == state_number_table(aut)
        rs    == reduce_states(aut)
        nums  == {r \in DOMAIN rs : rs[r] \in DOMAIN table}
    IN  [k \in {<<table[rs[r]], t>> : r \in nums, t \in Terminals} |->
            Reduce(CHOOSE r \in nums : table[rs[r]] = k[1])]

\* the Reduce entries of the first loop
reduce_entries(aut) ==
    LET table == state_number_table(aut)
        rs    == reduce_states(aut)
        nums  == {r \in DOMAIN rs : rs[r] \in DOMAIN table}
    IN  [k \in {<<table[rs[r]], t>> : r \in nums, t \in Terminals} |->
            Reduce((CHOOSE r \in nums : table[rs[r]] = k[1]) - 1)]

\* transition_rule with the emptiness test made before the accept test
transition_rule_empty_first(aut, to) ==
    IF to # <<>> THEN Shift(state_number_table(aut)[to])
    ELSE IF Contains(to, accept_rule) THEN Accept
    ELSE Error

\* the entry the second loop makes for a transition on a terminal
transition_rule(aut, to) ==
    IF Contains(to, accept_rule) THEN Accept
    ELSE IF to # <<>> THEN Shift(state_number_table(aut)[to])
    ELSE Error

transition_entries(aut) ==
    LET table == state_number_table(aut)
        keys  == {k \in DOMAIN aut.trans : k[2][1] = "Term"}
    IN  [a \in {<<table[k[1]], k[2][2]>> : k \in keys} |->
            transition_rule(aut,
                aut.trans[CHOOSE k \in keys : <<table[k[1]], k[2][2]>> = a])]

\* insert_all that keeps an entry already present (or_insert)
insert_all_keep_first(base, over) ==
    [k \in DOMAIN base \cup DOMAIN over |-> IF k \in DOMAIN base THEN base[k] ELSE over[k]]

\* BTreeMap::insert of every entry of `over` into `base`
insert_all(base, over) ==
    [k \in DOMAIN base \cup DOMAIN over |-> IF k \in DOMAIN over THEN over[k] ELSE base[k]]

new_action_table(aut) == insert_all(reduce_entries(aut), transition_entries(aut))

\* new_goto_table with the number of the source state stored as the target
new_goto_table_from(aut) ==
    LET table == state_number_table(aut)
        keys  == {k \in DOMAIN aut.trans : k[2][1] = "NonTerm"}
    IN  [g \in {<<table[k[1]], k[2][2]>> : k \in keys} |-> g[1]]

\* the goto entries of the loop over the transitions
new_goto_table(aut) ==
    LET table == state_number_table(aut)
        keys  == {k \in DOMAIN aut.trans : k[2][1] = "NonTerm"}
    IN  [g \in {<<table[k[1]], k[2][2]>> : k \in keys} |->
            table[aut.trans[CHOOSE k \in keys : <<table[k[1]], k[2][2]>> = g]]]

canonical_automaton_to_lr0_parser(aut) ==
    [input        |-> <<>>,
     cursor       |-> 0,
     action_table |-> new_action_table(aut),
     goto_table   |-> new_goto_table(aut),
     stack        |-> <<start_state_number(aut)>>,
     rule_table   |-> new_rule_table(aut)]

(***************************************************************************)
(* LR0Parser: the engine.                                                  *)
(***************************************************************************)
VARIABLES
    automaton,      \* the automaton the tables were built from
    input, cursor, action_table, goto_table, stack, rule_table,  \* the fields
    pc,             \* "ready": no call in progress; "running": inside the loop of
                    \* export_parsing_as_latex_src; "aborted": a panic ended the process
    op,             \* the last public operation called
    act,            \* what the last step met (the line it printed)
    fresh,          \* the current input is being parsed from stack = [start state]
    halted          \* a step_once call has met Accept or a failure since the last
                    \* reset() or input()

vars == <<automaton, input, cursor, action_table, goto_table, stack, rule_table,
          pc, op, act, fresh, halted>>
tables == <<action_table, goto_table, rule_table>>

\* the token sequences handed to input(): a^i b^j $^k of at most MaxLen tokens
Repeat(t, n) == [i \in 1..n |-> t]
Tokens ==
    {Repeat("a", i) \o Repeat("b", j) \o Repeat(eof_symbol, k) :
        i \in 0..MaxLen, j \in 0..MaxLen, k \in 0..MaxLen} \cap
    UNION {[1..n -> Terminals] : n \in 0..MaxLen}

\* what a step meets when the engine is Accepted or Failed (4.2 of the design)
Stopped == {"accept", "noaction", "error", "exhausted"}

\* pop_n with the loop run once too often (0..=pops)
pop_n_extra(stk, pops) ==
    SubSeq(stk, 1, IF Len(stk) > pops + 1 THEN Len(stk) - (pops + 1) ELSE 0)

\* Vec::pop, `pops` times: popping an empty Vec does nothing
pop_n(stk, pops) == SubSeq(stk, 1, IF Len(stk) > pops THEN Len(stk) - pops ELSE 0)

\* once_accept that also consumes the end-of-input token
once_accept_consumes(stk, cur) == [stack |-> stk, cursor |-> cur + 1, act |-> "accept"]

\* step_once, ActionKind::Accept: the line is printed, nothing else
once_accept(stk, cur) == [stack |-> stk, cursor |-> cur, act |-> "accept"]

\* once_reduce that reports a missing goto entry as a missing action
once_reduce_soft(stk, cur, rule_number, gt, rt) ==
    IF rule_number + 1 \in DOMAIN rt
    THEN LET lr0item == rt[rule_number + 1]
             popped  == pop_n(stk, Len(lr0item.right))
         IN  IF popped # <<>>
             THEN LET goto_key == <<popped[Len(popped)], lr0item.left>>
                  IN  IF goto_key \in DOMAIN gt
                      THEN [stack |-> Append(popped, gt[goto_key]), cursor |-> cur,
                            act |-> "reduce"]
                      ELSE [stack |-> popped, cursor |-> cur, act |-> "noaction"]
             ELSE [stack |-> popped, cursor |-> cur, act |-> "panic"]
    ELSE [stack |-> stk, cursor |-> cur, act |-> "panic"]

\* step_once, ActionKind::Reduce(rule_number); every panic leaves the pops done
once_reduce(stk, cur, rule_number, gt, rt) ==
    IF rule_number + 1 \in DOMAIN rt
    THEN LET lr0item == rt[rule_number + 1]
             popped  == pop_n(stk, Len(lr0item.right))
         IN  IF popped # <<>>
             THEN LET goto_key == <<popped[Len(popped)], lr0item.left>>
                  IN  IF goto_key \in DOMAIN gt
                      THEN [stack |-> Append(popped, gt[goto_key]), cursor |-> cur,
                            act |-> "reduce"]
                      ELSE [stack |-> popped, cursor |-> cur, act |-> "panic"]
             ELSE [stack |-> popped, cursor |-> cur, act |-> "panic"]
    ELSE [stack |-> stk, cursor |-> cur, act |-> "panic"]

\* once_shift that advances the cursor by two
once_shift_skips(stk, cur, next_state) ==
    [stack |-> Append(stk, next_state), cursor |-> cur + 2, act |-> "shift"]

\* step_once, ActionKind::Shift(next_state)
once_shift(stk, cur, next_state) ==
    [stack |-> Append(stk, next_state), cursor |-> cur + 1, act |-> "shift"]

\* once_error that skips the offending token
once_error_skips(stk, cur) == [stack |-> stk, cursor |-> cur + 1, act |-> "error"]

\* step_once, ActionKind::Error
once_error(stk, cur) == [stack |-> stk, cursor |-> cur, act |-> "error"]

\* once_noaction that skips the offending token
once_noaction_skips(stk, cur) == [stack |-> stk, cursor |-> cur + 1, act |-> "noaction"]

\* step_once, no entry in action_table
once_noaction(stk, cur) == [stack |-> stk, cursor |-> cur, act |-> "noaction"]

\* step_once, input.get(cursor) is None: nothing is done and nothing printed
once_exhausted(stk, cur) == [stack |-> stk, cursor |-> cur, act |-> "exhausted"]

\* the body of step_once: what it leaves in stack and cursor, and what it met
step_once_body(inp, cur, stk, at, gt, rt) ==
    IF cur < Len(inp)
    THEN LET x == inp[cur + 1]
             q == stk[Len(stk)]
         IN  IF <<q, x>> \in DOMAIN at
             THEN LET action == at[<<q, x>>]
                  IN  CASE action[1] = "Accept" -> once_accept(stk, cur)
                        [] action[1] = "Reduce" -> once_reduce(stk, cur, action[2], gt, rt)
                        [] action[1] = "Shift"  -> once_shift(stk, cur, action[2])
                        [] action[1] = "Error"  -> once_error(stk, cur)
             ELSE once_noaction(stk, cur)
    ELSE once_exhausted(stk, cur)

\* loop_accept that also consumes the end-of-input token
loop_accept_consumes(stk, cur) ==
    [stack |-> stk, cursor |-> cur + 1, act |-> "accept", brk |-> TRUE]

\* the loop of export_parsing_as_latex_src, ActionKind::Accept: break
loop_accept(stk, cur) == [stack |-> stk, cursor |-> cur, act |-> "accept", brk |-> TRUE]

\* the loop, ActionKind::Reduce(rule_number)
loop_reduce(stk, cur, rule_number, gt, rt) ==
    IF rule_number + 1 \in DOMAIN rt
    THEN LET lr0item == rt[rule_number + 1]
             popped  == pop_n(stk, Len(lr0item.right))
         IN  IF popped # <<>>
             THEN LET goto_key == <<popped[Len(popped)], lr0item.left>>
                  IN  IF goto_key \in DOMAIN gt
                      THEN [stack |-> Append(popped, gt[goto_key]), cursor |-> cur,
                            act |-> "reduce", brk |-> FALSE]
                      ELSE [stack |-> popped, cursor |-> cur, act |-> "panic",
                            brk |-> FALSE]
             ELSE [stack |-> popped, cursor |-> cur, act |-> "panic", brk |-> FALSE]
    ELSE [stack |-> stk, cursor |-> cur, act |-> "panic", brk |-> FALSE]

\* loop_shift that advances the cursor by two
loop_shift_skips(stk, cur, next_state) ==
    [stack |-> Append(stk, next_state), cursor |-> cur + 2, act |-> "shift", brk |-> FALSE]

\* the loop, ActionKind::Shift(next_state)
loop_shift(stk, cur, next_state) ==
    [stack |-> Append(stk, next_state), cursor |-> cur + 1, act |-> "shift", brk |-> FALSE]

\* the loop, ActionKind::Error: a message, no break
loop_error(stk, cur) == [stack |-> stk, cursor |-> cur, act |-> "error", brk |-> FALSE]

\* the loop, no entry in action_table: a message, no break
loop_noaction(stk, cur) == [stack |-> stk, cursor |-> cur, act |-> "noaction", brk |-> FALSE]

\* the loop, input.get(cursor) is None: the pass does nothing, no break
loop_exhausted(stk, cur) ==
    [stack |-> stk, cursor |-> cur, act |-> "exhausted", brk |-> FALSE]

\* one pass of the loop of export_parsing_as_latex_src; brk: the pass ends in break
loop_body(inp, cur, stk, at, gt, rt) ==
    IF cur < Len(inp)
    THEN LET x == inp[cur + 1]
             q == stk[Len(stk)]
         IN  IF <<q, x>> \in DOMAIN at
             THEN LET action == at[<<q, x>>]
                  IN  CASE action[1] = "Accept" -> loop_accept(stk, cur)
                        [] action[1] = "Reduce" -> loop_reduce(stk, cur, action[2], gt, rt)
                        [] action[1] = "Shift"  -> loop_shift(stk, cur, action[2])
                        [] action[1] = "Error"  -> loop_error(stk, cur)
             ELSE loop_noaction(stk, cur)
    ELSE loop_exhausted(stk, cur)

\* the start state number of each automaton, as the builder computes it
StartNumber == [aut \in Automata |-> start_state_number(aut)]

Init ==
    \E aut \in Automata :
        LET parser == canonical_automaton_to_lr0_parser(aut)
        IN  /\ automaton = aut
            /\ input = parser.input
            /\ cursor = parser.cursor
            /\ action_table = parser.action_table
            /\ goto_table = parser.goto_table
            /\ stack = parser.stack
            /\ rule_table = parser.rule_table
            /\ pc = "ready"
            /\ op = "new"
            /\ act = "none"
            /\ fresh = TRUE
            /\ halted = FALSE

\* reset()
Reset ==
    /\ pc = "ready"
    /\ cursor' = 0
    /\ input' = <<>>
    /\ stack' = <<0>>
    /\ op' = "reset"
    /\ act' = "none"
    /\ fresh' = (stack' = <<StartNumber[automaton]>>)
    /\ halted' = FALSE
    /\ UNCHANGED <<automaton, tables, pc>>

\* input(tokens) that also resets the stack, as reset() does
Input_resets_stack(tokens) ==
    /\ pc = "ready"
    /\ Len(stack) <= MaxStale
    /\ input' = tokens
    /\ cursor' = 0
    /\ stack' = <<0>>
    /\ op' = "input"
    /\ act' = "none"
    /\ fresh' = (stack' = <<StartNumber[automaton]>>)
    /\ halted' = FALSE
    /\ UNCHANGED <<automaton, tables, pc>>

\* input(tokens)
Input(tokens) ==
    /\ pc = "ready"
    /\ Len(stack) <= MaxStale
    /\ input' = tokens
    /\ cursor' = 0
    /\ action_table' = action_table
    /\ goto_table' = goto_table
    /\ stack' = stack
    /\ rule_table' = rule_table
    /\ op' = "input"
    /\ act' = "none"
    /\ fresh' = (stack' = <<StartNumber[automaton]>>)
    /\ halted' = FALSE
    /\ UNCHANGED <<automaton, pc>>

\* step_once()
StepOnce ==
    /\ pc = "ready"
    /\ LET r == step_once_body(input, cursor, stack, action_table, goto_table, rule_table)
       IN  /\ stack' = r.stack
           /\ cursor' = r.cursor
           /\ act' = r.act
           /\ pc' = IF r.act = "panic" THEN "aborted" ELSE "ready"
           /\ halted' = (halted \/ r.act \in Stopped)
    /\ op' = "step_once"
    /\ UNCHANGED <<automaton, input, tables, fresh>>

\* export_parsing_as_latex_src() is entered: the table header is printed
ExportParsing ==
    /\ pc = "ready"
    /\ pc' = "running"
    /\ op' = "run"
    /\ act' = "none"
    /\ UNCHANGED <<automaton, input, cursor, stack, tables, fresh, halted>>

\* one pass of its loop; after break the function returns
LoopPass ==
    /\ pc = "running"
    /\ LET r == loop_body(input, cursor, stack, action_table, goto_table, rule_table)
       IN  /\ stack' = r.stack
           /\ cursor' = r.cursor
           /\ act' = r.act
           /\ pc' = IF r.act = "panic" THEN "aborted"
                    ELSE IF r.brk THEN "ready" ELSE "running"
    /\ UNCHANGED <<automaton, input, tables, op, fresh, halted>>

Next ==
    \/ Reset
    \/ \E tokens \in Tokens : Input(tokens)
    \/ StepOnce
    \/ ExportParsing
    \/ LoopPass

Spec == Init /\ [][Next]_vars

(***************************************************************************)
(* Properties.                                                             *)
(***************************************************************************)
\* the complete items of a state other than the accept item
CompleteItems(state) ==
    {item \in Range(state) : item.dot_pos = Len(item.right) /\ item # StartItem(2)}
InReduceSet(state) == CompleteItems(state) # {}

\* no state for which the builder reports a conflict
ConflictFree(aut) ==
    \A state \in Range(aut.states) :
        CompleteItems(state) = {} \/ (Cardinality(CompleteItems(state)) = 1 /\ Len(state) = 1)

\* the automata of the grammar S' -> S $, S -> a S b | epsilon
EpsAutomata == {EpsSorted, EpsKernelFirst}

\* the automata of the grammar S' -> S $, S -> a S | b
Lr0Automata == {Lr0Plain, Lr0Reversed, Lr0Dead, Lr0Twice}

\* the sentences of the grammar an automaton was made from; Lr0NoGoto is the
\* canonical automaton of no grammar
Sentence(aut, w) ==
    IF aut \in EpsAutomata
    THEN \E n \in 0..Len(w) : w = Repeat("a", n) \o Repeat("b", n)
    ELSE IF aut \in Lr0Automata
    THEN \E n \in 0..Len(w) : w = Append(Repeat("a", n), "b")
    ELSE FALSE

\* the input is a sentence followed by the end-of-input terminal
ValidInput ==
    /\ input # <<>>
    /\ input[Len(input)] = eof_symbol
    /\ Sentence(automaton, SubSeq(input, 1, Len(input) - 1))

Failures == {"noaction", "error", "exhausted"}

\* C1: a run that meets a missing action or an Error entry stops: the driver
\* loop is left, it does not go on iterating on the unchanged state.
C1_FailureEndsRun == (op = "run" /\ act \in {"noaction", "error"}) => pc # "running"

\* C2: a run whose cursor reaches the end of the input before any Accept stops
\* through the exhausted-input path: the driver loop is left.
C2_ExhaustionEndsRun == (op = "run" /\ act = "exhausted") => pc # "running"

\* the case of C3: a run over a conflict-free table, on a sentence followed by
\* the end-of-input terminal, parsed from stack = [start state], cursor = 0
C3_Case == op = "run" /\ fresh /\ ConflictFree(automaton) /\ ValidInput

\* C3 as claimed: the run ends in Accept with stack = [start state] and
\* cursor = len(w) + 1, the length of the whole input.
C3_AcceptLeavesStartState ==
    (C3_Case /\ pc = "ready") =>
        /\ act = "accept"
        /\ stack = <<StartNumber[automaton]>>
        /\ cursor = Len(input)

\* C3 as amended: the run meets no failure and no panic, and ends in Accept
\* with stack = [start state, goto(start state, start symbol)] and
\* cursor = len(w), the index of the end-of-input terminal, which is not consumed.
C3_AcceptLeavesGotoOfStart ==
    C3_Case =>
        /\ act \notin Failures \cup {"panic"}
        /\ pc # "aborted"
        /\ pc = "ready" =>
              /\ act = "accept"
              /\ stack = <<StartNumber[automaton],
                           goto_table[<<StartNumber[automaton], start_symbol>>]>>
              /\ cursor = Len(input) - 1

C3_Witness == C3_Case /\ pc = "ready" /\ act = "accept" /\ Len(input) >= 3

\* C4: over the tables of the grammar S' -> S $, S -> a S b | epsilon, the
\* parse of a a b b $ from the start state goes on to Accept: no step of it
\* meets a failure or a panic.
C4_AabbReachesAccept ==
    (fresh /\ automaton \in EpsAutomata /\ input = <<"a", "a", "b", "b", "$">>) =>
        (act \notin Failures \cup {"panic"} /\ pc # "aborted")

\* C5 as claimed: over the same tables the parse of a b b $ goes on to Accept
\* (it meets no syntax failure), and the parse of a a b $ never meets Accept.
C5_AbbAcceptedAabRejected ==
    /\ (fresh /\ automaton \in EpsAutomata /\ input = <<"a", "b", "b", "$">>) =>
          act \notin Failures
    /\ (fresh /\ automaton \in EpsAutomata /\ input = <<"a", "a", "b", "$">>) =>
          act # "accept"

\* C5 as amended: over the same tables neither the parse of a b b $ nor the
\* parse of a a b $ ever meets Accept.
C5_NeitherAccepted ==
    (/\ fresh
     /\ automaton \in EpsAutomata
     /\ input \in {<<"a", "b", "b", "$">>, <<"a", "a", "b", "$">>}) => act # "accept"

C5_Witness ==
    /\ fresh
    /\ automaton = EpsSorted
    /\ input = <<"a", "b", "b", "$">>
    /\ act = "noaction"
    /\ cursor = 2

\* C6: once a step_once call has met Accept, a missing action, an Error entry
\* or exhausted input, every later step_once call before the next reset() or
\* input() leaves input, cursor and stack unchanged and meets no Shift or Reduce.
C6_StoppedIsAbsorbing ==
    [][(halted /\ pc = "ready" /\ op' = "step_once") =>
          (input' = input /\ cursor' = cursor /\ stack' = stack /\ act' \in Stopped)]_vars

C6_Witness ==
    /\ halted
    /\ op = "step_once"
    /\ act = "accept"
    /\ Len(stack) > 1
    /\ cursor + 1 = Len(input)

\* C7: after reset() cursor = 0, the input is empty, the stack is [s] with s
\* the number of the state holding the augmented start item, and the tables
\* are the ones the builder made.
C7_ResetRestoresStartState ==
    op = "reset" =>
        /\ cursor = 0
        /\ input = <<>>
        /\ stack = <<StartNumber[automaton]>>
        /\ action_table = new_action_table(automaton)
        /\ goto_table = new_goto_table(automaton)
        /\ rule_table = new_rule_table(automaton)

\* C8: input(tokens) sets the input to the tokens given and cursor to 0, and
\* leaves the stack and the three tables as they were: the stack of an earlier
\* run is carried into the next one.
C8_InputKeepsStack ==
    [][(pc = "ready" /\ op' = "input") =>
          /\ input' \in Tokens
          /\ cursor' = 0
          /\ stack' = stack
          /\ action_table' = action_table
          /\ goto_table' = goto_table
          /\ rule_table' = rule_table]_vars

C8_Witness == op = "input" /\ input # <<>> /\ cursor = 0 /\ Len(stack) > 1 /\ ~fresh

\* C9 as claimed: for every state of the reduce set and every terminal of the
\* alphabet the action table holds a Reduce entry at (number(state), terminal).
C9_ReduceAtEveryTerminal ==
    LET number == state_number_table(automaton)
    IN  \A state \in Range(automaton.states) : \A t \in Terminals :
            InReduceSet(state) =>
                /\ <<number[state], t>> \in DOMAIN action_table
                /\ action_table[<<number[state], t>>][1] = "Reduce"

\* C9 as amended: for every state of the reduce set and every terminal the
\* action table holds an entry at (number(state), terminal), and the entry is a
\* Reduce entry exactly when the transition map has no entry for that state and
\* terminal: a transition wins over the reduction.
C9_ReduceUnlessTransition ==
    LET number == state_number_table(automaton)
    IN  \A state \in Range(automaton.states) : \A t \in Terminals :
            InReduceSet(state) =>
                /\ <<number[state], t>> \in DOMAIN action_table
                /\ action_table[<<number[state], t>>][1] = "Reduce"
                      <=> <<state, Term(t)>> \notin DOMAIN automaton.trans

C9_Witness ==
    LET number == state_number_table(automaton)
    IN  \E state \in Range(automaton.states) : \E t, u \in Terminals :
            /\ InReduceSet(state)
            /\ <<state, Term(t)>> \in DOMAIN automaton.trans
            /\ action_table[<<number[state], t>>][1] = "Shift"
            /\ action_table[<<number[state], u>>][1] = "Reduce"

\* the entry of the action table at a key, <<"None">> where it has none
EntryAt(key) == IF key \in DOMAIN action_table THEN action_table[key] ELSE <<"None">>

\* C10 as claimed: the entry at (q, t) is Accept iff there is a transition from
\* q on t whose target holds the accept item; Shift(n) iff there is one whose
\* target is not the accept state, n being the target's number; Error iff
\* there is no transition from q on t and q is not a reduce state.
C10_EntryMirrorsTransition ==
    LET number == state_number_table(automaton)
    IN  \A state \in Range(automaton.states) : \A t \in Terminals :
            LET entry == EntryAt(<<number[state], t>>)
                has   == <<state, Term(t)>> \in DOMAIN automaton.trans
                to    == automaton.trans[<<state, Term(t)>>]
            IN  /\ entry = Accept <=> (has /\ Contains(to, StartItem(2)))
                /\ entry[1] = "Shift" <=> (has /\ ~Contains(to, StartItem(2)))
                /\ entry[1] = "Shift" => entry[2] = number[to]
                /\ entry = Error <=> (~has /\ ~InReduceSet(state))

\* C10 as amended: the entry at (q, t) is Accept iff the transition map has an
\* entry for (q, t) whose target holds the accept item; Shift(n) iff it has one
\* whose target is not empty and does not hold the accept item, n being the
\* target's number; Error iff it has one whose target is the empty item list,
\* whether q is a reduce state or not.  Where the map has no entry for (q, t)
\* the action table holds Reduce if q is a reduce state and nothing otherwise.
C10_EntryMirrorsMapEntry ==
    LET number == state_number_table(automaton)
    IN  \A state \in Range(automaton.states) : \A t \in Terminals :
            LET entry == EntryAt(<<number[state], t>>)
                has   == <<state, Term(t)>> \in DOMAIN automaton.trans
                to    == automaton.trans[<<state, Term(t)>>]
            IN  /\ entry = Accept <=> (has /\ Contains(to, StartItem(2)))
                /\ entry[1] = "Shift" <=> (has /\ to # <<>> /\ ~Contains(to, StartItem(2)))
                /\ entry[1] = "Shift" => entry[2] = number[to]
                /\ entry = Error <=> (has /\ to = <<>>)
                /\ ~has => entry[1] = (IF InReduceSet(state) THEN "Reduce" ELSE "None")

C10_Witness ==
    LET number == state_number_table(automaton)
    IN  /\ \E state \in Range(automaton.states) : \E t \in Terminals :
              InReduceSet(state) /\ EntryAt(<<number[state], t>>) = Error
        /\ \E state \in Range(automaton.states) : \E t \in Terminals :
              ~InReduceSet(state) /\ EntryAt(<<number[state], t>>) = <<"None">>
        /\ \E key \in DOMAIN action_table : action_table[key] = Accept

\* position i of the state list is the last one holding its item list
IsLast(i) ==
    \A j \in DOMAIN automaton.states :
        automaton.states[j] = automaton.states[i] => j <= i

\* the greatest index (0-based) at which an item list occurs in the state list
LastIndex(state) ==
    (CHOOSE i \in DOMAIN automaton.states : automaton.states[i] = state /\ IsLast(i)) - 1

\* the entry step 5 of the construction derives from a transition target
DerivedEntry(to) ==
    IF Contains(to, StartItem(2)) THEN <<"Accept">>
    ELSE IF to # <<>> THEN <<"Shift", LastIndex(to)>>
    ELSE <<"Error">>

\* C11: for every transition (from, Terminal(t)) -> to the finished action
\* table holds, at (number(from), t), the Accept/Shift/Error entry derived from
\* the transition, also where from is a reduce state whose Reduce entry had
\* been installed at that key.
C11_TransitionEntryIsLast ==
    \A k \in DOMAIN automaton.trans :
        k[2][1] = "Term" =>
            EntryAt(<<LastIndex(k[1]), k[2][2]>>) = DerivedEntry(automaton.trans[k])

C11_Witness ==
    \E k \in DOMAIN automaton.trans : \E t \in Terminals :
        /\ k[2][1] = "Term"
        /\ InReduceSet(k[1])
        /\ EntryAt(<<LastIndex(k[1]), k[2][2]>>) = DerivedEntry(automaton.trans[k])
        /\ EntryAt(<<LastIndex(k[1]), t>>)[1] = "Reduce"

\* the tables use the number nf for the state at position i and the number nt
\* for the state at position j, wherever a transition leads from the one to
\* the other
NumbersUsed(i, nf, j, nt) ==
    \A k \in DOMAIN automaton.trans :
        (k[1] = automaton.states[i] /\ automaton.trans[k] = automaton.states[j]) =>
            IF k[2][1] = "NonTerm"
            THEN /\ <<nf, k[2][2]>> \in DOMAIN goto_table
                 /\ goto_table[<<nf, k[2][2]>>] = nt
            ELSE Contains(automaton.states[j], StartItem(2))
                    \/ EntryAt(<<nf, k[2][2]>>) = <<"Shift", nt>>

\* C12 as claimed: the number of every state, as used in Shift targets, goto
\* targets and table keys, is the index of the state in the given sequence,
\* also where an item list occurs at two positions.
C12_NumberIsIndex ==
    \A i, j \in DOMAIN automaton.states : NumbersUsed(i, i - 1, j, j - 1)

\* C12 as amended: the number of every state, as used in Shift targets, goto
\* targets and table keys, is the greatest index at which its item list occurs
\* in the given sequence (its index, where no item list occurs twice), and the
\* engine starts with that number of the start state on its stack.
C12_NumberIsLastIndex ==
    /\ \A i, j \in DOMAIN automaton.states :
          (IsLast(i) /\ IsLast(j)) => NumbersUsed(i, i - 1, j, j - 1)
    /\ \A i \in DOMAIN automaton.states :
          (op = "new" /\ Contains(automaton.states[i], StartItem(0)) /\ IsLast(i)) =>
              stack = <<i - 1>>

C12_Witness ==
    \E i, j \in DOMAIN automaton.states : \E key \in DOMAIN action_table :
        /\ i < j
        /\ automaton.states[i] = automaton.states[j]
        /\ IsLast(j)
        /\ action_table[key] = <<"Shift", j - 1>>

\* the states of the reduce set in ascending order
SortedReduceSet == SortedStates({state \in Range(automaton.states) : InReduceSet(state)})

\* C13: entry r of the rule table is a complete item other than the accept
\* item, and an item of the r-th state of the sorted reduce set, wherever that
\* item stands in the state's item list.
C13_RuleIsCompleteItem ==
    /\ Len(rule_table) = Len(SortedReduceSet)
    /\ \A r \in DOMAIN rule_table :
          /\ rule_table[r].dot_pos = Len(rule_table[r].right)
          /\ rule_table[r] # StartItem(2)
          /\ Contains(SortedReduceSet[r], rule_table[r])

\* a step of the engine is taken: a call of step_once or a pass of the run loop
Stepping == (pc = "ready" /\ op' = "step_once") \/ pc = "running"

\* the action-table entry for (top of stack, lookahead); needs cursor < Len(input)
Lookahead == EntryAt(<<stack[Len(stack)], input[cursor + 1]>>)

\* C14: a step whose action is Reduce(r), with rule r = (A, right side of
\* length k), a stack of at least k+1 entries and a goto entry for the exposed
\* state and A, removes exactly the top k entries, pushes that goto entry and
\* leaves cursor and input unchanged; a step whose action is Shift(q') pushes
\* q' and increases the cursor by exactly 1.
C14_ReduceAndShiftEffect ==
    [][(Stepping /\ cursor < Len(input)) =>
          /\ (Lookahead[1] = "Reduce" /\ Lookahead[2] + 1 \in DOMAIN rule_table) =>
                LET k == Len(rule_table[Lookahead[2] + 1].right)
                    A == rule_table[Lookahead[2] + 1].left
                IN  (Len(stack) >= k + 1 /\ <<stack[Len(stack) - k], A>> \in DOMAIN goto_table) =>
                        /\ stack' = Append(SubSeq(stack, 1, Len(stack) - k),
                                           goto_table[<<stack[Len(stack) - k], A>>])
                        /\ cursor' = cursor
                        /\ input' = input
          /\ Lookahead[1] = "Shift" =>
                /\ stack' = Append(stack, Lookahead[2])
                /\ cursor' = cursor + 1
                /\ input' = input]_vars

C14_Witness ==
    /\ automaton = Lr0Plain
    /\ input = <<"a", "b", "$">>
    /\ act = "reduce"
    /\ stack = <<0, 1>>
    /\ cursor = 2

\* C15: a step_once call that finds no action-table entry for (top of stack,
\* lookahead), or an Error entry, or an Accept entry, leaves input, cursor and
\* stack as they were before the call.
C15_FailedStepChangesNothing ==
    [][(pc = "ready" /\ op' = "step_once" /\ cursor < Len(input)
            /\ Lookahead[1] \in {"None", "Error", "Accept"}) =>
          /\ input' = input
          /\ cursor' = cursor
          /\ stack' = stack]_vars

C15_Witness ==
    /\ op = "step_once"
    /\ act = "error"
    /\ input # <<>>
    /\ cursor = 0
    /\ stack = <<StartNumber[automaton]>>

\* the stack t keeps the entries of the stack s from the bottom up
IsPrefix(t, s) == Len(t) <= Len(s) /\ t = SubSeq(s, 1, Len(t))

\* the rule numbers just past the end of the rule table
BeyondRules == {Len(rule_table), Len(rule_table) + 1}

\* C16: a Reduce(r) step ends in the fatal failure (the process is aborted,
\* which no syntax error does) and pushes nothing, when r is not an index of the
\* rule table, when the stack holds fewer than k+1 entries for the right-hand
\* length k of rule r, and when the goto table has no entry for (exposed top
\* state, left-hand nonterminal).
C16_MalformedTableIsFatal ==
    /\ [](pc # "aborted" =>
            \A r \in BeyondRules :
                /\ once_reduce(stack, cursor, r, goto_table, rule_table)
                      = [stack |-> stack, cursor |-> cursor, act |-> "panic"]
                /\ loop_reduce(stack, cursor, r, goto_table, rule_table)
                      = [stack |-> stack, cursor |-> cursor, act |-> "panic", brk |-> FALSE])
    /\ [][(Stepping /\ cursor < Len(input) /\ Lookahead[1] = "Reduce"
              /\ Lookahead[2] + 1 \in DOMAIN rule_table) =>
            LET k == Len(rule_table[Lookahead[2] + 1].right)
                A == rule_table[Lookahead[2] + 1].left
            IN  (Len(stack) < k + 1 \/ <<stack[Len(stack) - k], A>> \notin DOMAIN goto_table) =>
                    /\ act' = "panic"
                    /\ pc' = "aborted"
                    /\ IsPrefix(stack', stack)
                    /\ cursor' = cursor]_vars

C16_Witness ==
    /\ automaton = Lr0NoGoto
    /\ pc = "aborted"
    /\ act = "panic"
    /\ stack = <<0, 2>>
    /\ cursor = 2

\* C17: in every state reached from a freshly built engine by input, reset,
\* step_once and run calls, none of which failed fatally, the stack is
\* non-empty and 0 <= cursor <= length(input).
C17_StackAndCursorInRange ==
    pc # "aborted" => (stack # <<>> /\ cursor >= 0 /\ cursor <= Len(input))

C17_Witness ==
    /\ act = "exhausted"
    /\ cursor = Len(input)
    /\ cursor >= 2
    /\ Len(stack) >= 3

\* more passes than any run over an input of at most MaxLen tokens takes
MaxPasses == 3 * MaxLen + 3

\* the run loop from (cur, stk): the actions taken and where it ends
RECURSIVE run_to_completion(_, _, _)
run_to_completion(cur, stk, fuel) ==
    LET r == loop_body(input, cur, stk, action_table, goto_table, rule_table)
    IN  IF r.act \in {"shift", "reduce"} /\ fuel > 0
        THEN LET rest == run_to_completion(r.cursor, r.stack, fuel - 1)
             IN  [rest EXCEPT !.actions = <<r.act>> \o @]
        ELSE [actions |-> <<r.act>>, cursor |-> r.cursor, stack |-> r.stack]

\* step_once called again and again from (cur, stk) while it shifts or reduces
RECURSIVE step_repeatedly(_, _, _)
step_repeatedly(cur, stk, fuel) ==
    LET r == step_once_body(input, cur, stk, action_table, goto_table, rule_table)
    IN  IF r.act \in {"shift", "reduce"} /\ fuel > 0
        THEN LET rest == step_repeatedly(r.cursor, r.stack, fuel - 1)
             IN  [rest EXCEPT !.actions = <<r.act>> \o @]
        ELSE [actions |-> <<r.act>>, cursor |-> r.cursor, stack |-> r.stack]

\* C18: from every state in which a call can be made, if the run loop reaches
\* Accept then step_once called repeatedly reaches Accept too, with the same
\* sequence of Shift/Reduce/Accept actions and the same final cursor and stack.
C18_RunEqualsRepeatedSteps ==
    pc = "ready" =>
        LET run == run_to_completion(cursor, stack, MaxPasses)
        IN  run.actions[Len(run.actions)] = "accept" =>
                step_repeatedly(cursor, stack, MaxPasses) = run

C18_Witness ==
    /\ pc = "ready"
    /\ op = "run"
    /\ act = "accept"
    /\ automaton = EpsSorted
    /\ input = <<"a", "a", "b", "b", "$">>
    /\ stack = <<StartNumber[automaton], 1>>

\* C19: for every transition (from, NonTerminal(nt)) -> to the goto table maps
\* (number(from), nt) to number(to), and it has no other entry.
C19_GotoMirrorsTransitions ==
    LET keys == {k \in DOMAIN automaton.trans : k[2][1] = "NonTerm"}
    IN  /\ DOMAIN goto_table = {<<LastIndex(k[1]), k[2][2]>> : k \in keys}
        /\ \A k \in keys :
              goto_table[<<LastIndex(k[1]), k[2][2]>>] = LastIndex(automaton.trans[k])

C19_Witness ==
    /\ Cardinality(DOMAIN goto_table) = 2
    /\ \E g \in DOMAIN goto_table : goto_table[g] < g[1]

\* the numbers the builder gave to the states of the automaton
StateNumbers == {LastIndex(state) : state \in Range(automaton.states)}

\* C20: every Reduce(r) entry of the action table has r < length(rule_table)
\* and sits at the number of the r-th state of the sorted reduce set, every
\* Shift target and every goto target is the number of a state of the
\* automaton, and the Reduce entry a step meets names a rule of the rule table.
C20_TablesAreClosed ==
    /\ \A key \in DOMAIN action_table :
          /\ action_table[key][1] = "Reduce" =>
                /\ action_table[key][2] >= 0
                /\ action_table[key][2] < Len(rule_table)
                /\ action_table[key][2] < Len(SortedReduceSet)
                /\ key[1] = LastIndex(SortedReduceSet[action_table[key][2] + 1])
          /\ action_table[key][1] = "Shift" => action_table[key][2] \in StateNumbers
    /\ \A g \in DOMAIN goto_table : goto_table[g] \in StateNumbers
    /\ (pc # "aborted" /\ cursor < Len(input) /\ Lookahead[1] = "Reduce") =>
          Lookahead[2] + 1 \in DOMAIN rule_table

C20_Witness ==
    /\ act = "reduce"
    /\ Len(rule_table) >= 2
    /\ \E key \in DOMAIN action_table : action_table[key] = <<"Reduce", Len(rule_table) - 1>>
    /\ \E key \in DOMAIN action_table : action_table[key][1] = "Shift"

====
